---- MODULE Spec2Model ----
(***************************************************************************)
(* A model of the kip instance provider (package server):                  *)
(*   - provider startup, NewInstanceProvider, with ensureRegionUnchanged   *)
(*     against the shared KV store and the controller manager;             *)
(*   - optimistic-concurrency Update of a registry entity;                 *)
(*   - filterEventList;                                                    *)
(*   - the virtual-kubelet pod callbacks and findLog.                      *)
(* Each part has its own specification over the same variables; the parts  *)
(* a specification does not exercise stay at their parked initial value.   *)
(***************************************************************************)
EXTENDS Integers, Sequences, FiniteSets, TLC

\* ------------------------------------------------------------------ bounds

\* Startups of the provider process beyond each process's first one.
MaxRestarts == 2

\* MaxEventListSize (4000 in the source), scaled down with the lists.
MaxEventListSize == 2
\* Longest event list, latest CreationTimestamp, calls of the filter on one list.
MaxListLen == 4
MaxTimestamp == 3
MaxCalls == 2
\* Updates one writer attempts on the entity.
MaxTries == 2
\* Node-agent calls made in one run.
MaxAgentCalls == 1

\* ------------------------------------------------------------- startup state

VARIABLES
    kvRegion,       \* value stored at etcdClusterRegionPath, or NoValue
    election,       \* holder of the election key under milpaElectionDir, or NoProc
    pc,             \* per process: position in NewInstanceProvider
    cloudRegion,    \* per process: cloudClient.GetAttributes().Region
    provider,       \* per process: cloud provider of the configured cloud client
    savedRegion,    \* per process: the region ensureRegionUnchanged read, or NoValue
    err,            \* per process: err returned by ensureRegionUnchanged
    exitAt,         \* per process: the step whose failure ended the startup
    controllers,    \* per process: keys of the controllers map
    running,        \* per process: controllers whose Start has been called
    managerUp,      \* per process: go controllerManager.Start() is running
    startChan,      \* per process: StartControllers has signalled the manager
    imageAvailable, \* per process: the Azure image controller has synced the image
    waitReturned,   \* per process: WaitForAvailable has returned
    poolTicked,     \* per process: NodeController has run a pool tick
    restarts        \* number of restarts taken so far

startupVars == <<kvRegion, election, pc, cloudRegion, provider, savedRegion, err, exitAt,
                 controllers, running, managerUp, startChan, imageAvailable,
                 waitReturned, poolTicked, restarts>>

\* ------------------------------------------------------------ event list state

VARIABLES
    objKind,        \* the kind of the reply object handed to filterReplyObject
    eventList,      \* the reply object's Items, or NIL for a nil list
    evOrig,         \* the Items before the first call
    evInput,        \* the Items handed to the last call
    evCalls         \* number of calls of filterReplyObject on the object

eventVars == <<objKind, eventList, evOrig, evInput, evCalls>>

\* ------------------------------------------------------- registry entity state

VARIABLES
    stored,         \* the stored entity: its ResourceVersion and its content
    wpc,            \* per writer: idle, read (holds a copy), done
    wread,          \* per writer: the ResourceVersion of the copy it read
    wres,           \* per writer: the result of its last Update
    wtries,         \* per writer: Updates attempted
    updates         \* every Update the store has answered, in order

registryVars == <<stored, wpc, wread, wres, wtries, updates>>

\* ------------------------------------------------------ instance provider state

VARIABLES
    podRegistry,    \* KV["Pod"]: pod name -> pod, for the pods that exist
    nodeRegistry,   \* KV["Node"]: node name -> node
    logRegistry,    \* KV["Log"]: the stored log records
    agentCalls,     \* number of node-agent calls made through ItzoClientFactory
    reply,          \* what the last call on the provider returned
    notifier        \* InstanceProvider.notifier

podVars == <<podRegistry, nodeRegistry, logRegistry, agentCalls, reply, notifier>>

\* ------------------------------------------------------ provider config state

VARIABLES
    configFile,     \* the file at the providerConfig path
    configNodeName, \* the nodeName argument of loadProviderConfig
    configResult    \* what loadProviderConfig returned

configVars == <<configFile, configNodeName, configResult>>

vars == <<startupVars, eventVars, registryVars, podVars, configVars>>

notStartup == <<eventVars, registryVars, podVars, configVars>>
notEvents == <<startupVars, registryVars, podVars, configVars>>
notRegistry == <<startupVars, eventVars, podVars, configVars>>
notPods == <<startupVars, eventVars, registryVars, configVars>>
notConfig == <<startupVars, eventVars, registryVars, podVars>>

Procs == {"p1", "p2"}
NoProc == "none"
NoValue == "<absent>"
NoRegion == "<unset>"
NIL == "nil"
Regions == {"", "us-east-1", "us-west-2"}
Providers == {"aws", "azure"}

etcdClusterRegionPath == "milpa/cluster/region"
milpaElectionDir == "milpa/election"

NoErr == <<>>
ErrKeyExists == <<"Key already exists">>
ErrStore == <<"store error">>

\* The message of the error ensureRegionUnchanged builds with fmt.Errorf.
RegionChangedError(saved, region) ==
    << "Error: region has changed from ", saved, " to ", region,
       ". This is unsupported. ",
       "Please delete all cluster resources and rename your cluster." >>

\* The controllers map built by NewInstanceProvider for a cloud provider.
ControllersFor(prov) ==
    {"PodController", "NodeController", "GarbageController", "MetricsController"}
        \cup (IF prov = "azure" THEN {"ImageController"} ELSE {})

Dead == {"exited", "returned_err"}

\* ---------------------------------------------------------------- KV store

\* SimpleEtcd.AtomicPut(key, value, previous, opts) on one key: with previous = nil
\* the put creates the key and fails with ErrKeyExists when the key is present;
\* with a previous pair it succeeds only if the key still holds that pair.
\* Yields the new content of the key and the error.
AtomicPut(current, value, previous) ==
    IF previous = NoValue
    THEN IF current = NoValue
         THEN [store |-> value, err |-> NoErr]
         ELSE [store |-> current, err |-> ErrKeyExists]
    ELSE IF current = previous
         THEN [store |-> value, err |-> NoErr]
         ELSE [store |-> current, err |-> <<"Key modified">>]

\* SimpleEtcd.Put: an unconditional write.
Put(current, value) == [store |-> value, err |-> NoErr]

\* ------------------------------------------------------------ startup steps

Goto(p, label) == pc' = [pc EXCEPT ![p] = label]

\* os.Exit(1): the process and all its goroutines are gone.
osExit(p, at) ==
    /\ pc' = [pc EXCEPT ![p] = "exited"]
    /\ exitAt' = [exitAt EXCEPT ![p] = at]
    /\ running' = [running EXCEPT ![p] = {}]
    /\ managerUp' = [managerUp EXCEPT ![p] = FALSE]
    /\ startChan' = [startChan EXCEPT ![p] = FALSE]

\* return nil, err: NewInstanceProvider gives up before anything was started.
returnErr(p, at) ==
    /\ pc' = [pc EXCEPT ![p] = "returned_err"]
    /\ exitAt' = [exitAt EXCEPT ![p] = at]
    /\ UNCHANGED <<running, managerUp, startChan>>

localsUnchanged ==
    UNCHANGED <<cloudRegion, provider, savedRegion, err, controllers,
                imageAvailable, waitReturned, poolTicked>>

\* A step that only moves on.
Pass(p, next) ==
    /\ Goto(p, next)
    /\ UNCHANGED <<exitAt, running, managerUp, startChan>>

loadProviderConfigStep(p) ==
    /\ pc[p] = "loadProviderConfig"
    /\ \/ Pass(p, "ParseConfig")
       \/ returnErr(p, "loadProviderConfig")
    /\ localsUnchanged
    /\ UNCHANGED <<kvRegion, election, restarts>>
    /\ UNCHANGED notStartup

ParseConfigStep(p) ==
    /\ pc[p] = "ParseConfig"
    /\ \/ Pass(p, "validateServerConfigFile")
       \/ osExit(p, "ParseConfig")
    /\ localsUnchanged
    /\ UNCHANGED <<kvRegion, election, restarts>>
    /\ UNCHANGED notStartup

validateServerConfigFileStep(p) ==
    /\ pc[p] = "validateServerConfigFile"
    /\ \/ Pass(p, "setupEtcd")
       \/ returnErr(p, "validateServerConfigFile")
    /\ localsUnchanged
    /\ UNCHANGED <<kvRegion, election, restarts>>
    /\ UNCHANGED notStartup

\* setupEtcd: start the etcd server and write /milpa/startup (another key).
setupEtcdStep(p) ==
    /\ pc[p] = "setupEtcd"
    /\ \/ Pass(p, "getControllerID")
       \/ osExit(p, "setupEtcd")
    /\ localsUnchanged
    /\ UNCHANGED <<kvRegion, election, restarts>>
    /\ UNCHANGED notStartup

getControllerIDStep(p) ==
    /\ pc[p] = "getControllerID"
    /\ \/ Pass(p, "certsNew")
       \/ osExit(p, "getControllerID")
    /\ localsUnchanged
    /\ UNCHANGED <<kvRegion, election, restarts>>
    /\ UNCHANGED notStartup

certsNewStep(p) ==
    /\ pc[p] = "certsNew"
    /\ \/ Pass(p, "ConfigureCloud")
       \/ osExit(p, "certsNew")
    /\ localsUnchanged
    /\ UNCHANGED <<kvRegion, election, restarts>>
    /\ UNCHANGED notStartup

\* ConfigureCloud and cloudClient.GetAttributes().Region: the configuration
\* decides the provider and the region this startup runs with.
ConfigureCloudStep(p) ==
    /\ pc[p] = "ConfigureCloud"
    /\ \/ \E r \in Regions, prov \in Providers :
            /\ cloudRegion' = [cloudRegion EXCEPT ![p] = r]
            /\ provider' = [provider EXCEPT ![p] = prov]
            /\ Pass(p, "ensureRegionUnchanged")
       \/ /\ osExit(p, "ConfigureCloud")
          /\ UNCHANGED <<cloudRegion, provider>>
    /\ UNCHANGED <<savedRegion, err, controllers, imageAvailable, waitReturned,
                   poolTicked>>
    /\ UNCHANGED <<kvRegion, election, restarts>>
    /\ UNCHANGED notStartup

\* ---------------------------------------------------- ensureRegionUnchanged

\* Mutant: the comparison never reports a change.
regionChanged_Never(region, saved) == FALSE

\* The comparison of the cloud region with the region read from the store.
regionChanged(region, saved) == region # saved

\* Mutant: the region is written with a plain Put.
ensureRegionCreate_Put(current, region) == Put(current, region)

\* Mutant: a create that finds the key taken reports success.
ensureRegionCreate_NoErr(current, region) ==
    [store |-> IF current = NoValue THEN region ELSE current, err |-> NoErr]

\* Mutant: the create reports success and writes nothing.
ensureRegionCreate_NoWrite(current, region) == [store |-> current, err |-> NoErr]

\* The write of ensureRegionUnchanged when the key was not found: an AtomicPut
\* with previous = nil, that is a create.
ensureRegionCreate(current, region) == AtomicPut(current, region, NoValue)

\* etcdClient.Get(etcdClusterRegionPath) and, when the key is there, the
\* comparison with the cloud region.
ensureRegionGet(p) ==
    /\ pc[p] = "ensureRegionUnchanged"
    /\ \/ \* Get fails with an error other than ErrKeyNotFound
          /\ err' = [err EXCEPT ![p] = ErrStore]
          /\ Goto(p, "ensureRegionReturned")
          /\ UNCHANGED savedRegion
       \/ \* ErrKeyNotFound
          /\ kvRegion = NoValue
          /\ Goto(p, "ensureRegionAtomicPut")
          /\ UNCHANGED <<savedRegion, err>>
       \/ /\ kvRegion # NoValue
          /\ savedRegion' = [savedRegion EXCEPT ![p] = kvRegion]
          /\ err' = [err EXCEPT ![p] =
                        IF regionChanged(cloudRegion[p], kvRegion)
                        THEN RegionChangedError(kvRegion, cloudRegion[p])
                        ELSE NoErr]
          /\ Goto(p, "ensureRegionReturned")
    /\ UNCHANGED <<kvRegion, election, restarts, exitAt, running, managerUp,
                   startChan, cloudRegion, provider, controllers,
                   imageAvailable, waitReturned, poolTicked>>
    /\ UNCHANGED notStartup

\* etcdClient.AtomicPut(etcdClusterRegionPath, []byte(region), nil, nil)
ensureRegionPut(p) ==
    /\ pc[p] = "ensureRegionAtomicPut"
    /\ \/ LET r == ensureRegionCreate(kvRegion, cloudRegion[p]) IN
            /\ kvRegion' = r.store
            /\ err' = [err EXCEPT ![p] = r.err]
       \/ \* the store is unreachable: nothing is written
          /\ err' = [err EXCEPT ![p] = ErrStore]
          /\ UNCHANGED kvRegion
    /\ Goto(p, "ensureRegionReturned")
    /\ UNCHANGED <<election, restarts, exitAt, running, managerUp, startChan,
                   cloudRegion, provider, savedRegion, controllers,
                   imageAvailable, waitReturned, poolTicked>>
    /\ UNCHANGED notStartup

\* NewInstanceProvider's handling of ensureRegionUnchanged's result.
ensureRegionReturn(p) ==
    /\ pc[p] = "ensureRegionReturned"
    /\ \/ /\ err[p] # NoErr
          /\ osExit(p, "ensureRegionUnchanged")
       \/ /\ err[p] = NoErr
          /\ Pass(p, "CreateClientCert")
    /\ localsUnchanged
    /\ UNCHANGED <<kvRegion, election, restarts>>
    /\ UNCHANGED notStartup

\* ----------------------------------------------- the steps after the region

CreateClientCertStep(p) ==
    /\ pc[p] = "CreateClientCert"
    /\ \/ Pass(p, "instanceselectorSetup")
       \/ osExit(p, "CreateClientCert")
    /\ localsUnchanged
    /\ UNCHANGED <<kvRegion, election, restarts>>
    /\ UNCHANGED notStartup

\* instanceselector.Setup(provider, cloudRegion, defaultInstanceType): an empty
\* region or an unknown default instance type is an error.
instanceselectorSetupStep(p) ==
    /\ pc[p] = "instanceselectorSetup"
    /\ \/ /\ cloudRegion[p] # ""
          /\ Pass(p, "ValidateInstanceType")
       \/ osExit(p, "instanceselectorSetup")
    /\ localsUnchanged
    /\ UNCHANGED <<kvRegion, election, restarts>>
    /\ UNCHANGED notStartup

ValidateInstanceTypeStep(p) ==
    /\ pc[p] = "ValidateInstanceType"
    /\ \/ Pass(p, "construct")
       \/ osExit(p, "ValidateInstanceType")
    /\ localsUnchanged
    /\ UNCHANGED <<kvRegion, election, restarts>>
    /\ UNCHANGED notStartup

\* The event system, the registries, the controllers map (with the Azure image
\* controller when the cloud client is Azure's), the controller manager and
\* the InstanceProvider value are built.
constructStep(p) ==
    /\ pc[p] = "construct"
    /\ controllers' = [controllers EXCEPT ![p] = ControllersFor(provider[p])]
    /\ Pass(p, "goStart")
    /\ UNCHANGED <<cloudRegion, provider, savedRegion, err, imageAvailable,
                   waitReturned, poolTicked>>
    /\ UNCHANGED <<kvRegion, election, restarts>>
    /\ UNCHANGED notStartup

\* go controllerManager.Start(); go controllerManager.WaitForShutdown(...)
goStartStep(p) ==
    /\ pc[p] = "goStart"
    /\ managerUp' = [managerUp EXCEPT ![p] = TRUE]
    /\ Goto(p, "StartControllers")
    /\ localsUnchanged
    /\ UNCHANGED <<kvRegion, election, restarts, exitAt, running, startChan>>
    /\ UNCHANGED notStartup

\* Mutant: StartControllers is not called before the wait.
StartControllersStep_Skip(p) ==
    /\ pc[p] = "StartControllers"
    /\ Goto(p, "WaitForAvailable")
    /\ localsUnchanged
    /\ UNCHANGED <<kvRegion, election, restarts, exitAt, running, managerUp,
                   startChan>>
    /\ UNCHANGED notStartup

\* controllerManager.StartControllers(): the manager is told to start them.
StartControllersStep(p) ==
    /\ pc[p] = "StartControllers"
    /\ startChan' = [startChan EXCEPT ![p] = TRUE]
    /\ Goto(p, "WaitForAvailable")
    /\ localsUnchanged
    /\ UNCHANGED <<kvRegion, election, restarts, exitAt, running, managerUp>>
    /\ UNCHANGED notStartup

\* if ctrl, ok := controllers["ImageController"]; ok { WaitForAvailable() }
WaitForAvailableStep(p) ==
    /\ pc[p] = "WaitForAvailable"
    /\ \/ /\ "ImageController" \in controllers[p]
          /\ imageAvailable[p]
          /\ waitReturned' = [waitReturned EXCEPT ![p] = TRUE]
       \/ /\ "ImageController" \notin controllers[p]
          /\ UNCHANGED waitReturned
    /\ Pass(p, "validateBootImageTags")
    /\ UNCHANGED <<cloudRegion, provider, savedRegion, err, controllers,
                   imageAvailable, poolTicked>>
    /\ UNCHANGED <<kvRegion, election, restarts>>
    /\ UNCHANGED notStartup

validateBootImageTagsStep(p) ==
    /\ pc[p] = "validateBootImageTags"
    /\ \/ Pass(p, "returned")
       \/ osExit(p, "validateBootImageTags")
    /\ localsUnchanged
    /\ UNCHANGED <<kvRegion, election, restarts>>
    /\ UNCHANGED notStartup

\* ------------------------------------------- controller manager, controllers

\* Leader election: a CAS create of the election key; the key carries a TTL
\* that the holder refreshes while it lives.
ManagerCampaign(p) ==
    /\ managerUp[p]
    /\ election = NoProc
    /\ election' = p
    /\ UNCHANGED <<kvRegion, pc, cloudRegion, provider, savedRegion, err, exitAt,
                   controllers, running, managerUp, startChan, imageAvailable,
                   waitReturned, poolTicked, restarts>>
    /\ UNCHANGED notStartup

\* Mutant: the manager launches without looking at the election.
MayLaunch_Always(p) == TRUE

\* Whether the manager of p may launch its controllers.
MayLaunch(p) == election = p

\* The manager launches every controller of the map, each on its own worker,
\* once StartControllers has asked for it and the election is won.
ManagerLaunch(p) ==
    /\ managerUp[p]
    /\ startChan[p]
    /\ MayLaunch(p)
    /\ running' = [running EXCEPT ![p] = controllers[p]]
    /\ startChan' = [startChan EXCEPT ![p] = FALSE]
    /\ UNCHANGED <<kvRegion, election, pc, cloudRegion, provider, savedRegion, err,
                   exitAt, controllers, managerUp, imageAvailable, waitReturned,
                   poolTicked, restarts>>
    /\ UNCHANGED notStartup

\* The election key of a process that is gone is no longer refreshed: its TTL
\* runs out.
ElectionExpire ==
    /\ election # NoProc
    /\ pc[election] \in Dead
    /\ election' = NoProc
    /\ UNCHANGED <<kvRegion, pc, cloudRegion, provider, savedRegion, err, exitAt,
                   controllers, running, managerUp, startChan, imageAvailable,
                   waitReturned, poolTicked, restarts>>
    /\ UNCHANGED notStartup

\* The Azure image controller, once started, brings the boot image into the
\* subscription; WaitForAvailable returns from then on.
ImageControllerSync(p) ==
    /\ "ImageController" \in running[p]
    /\ ~imageAvailable[p]
    /\ imageAvailable' = [imageAvailable EXCEPT ![p] = TRUE]
    /\ UNCHANGED <<kvRegion, election, pc, cloudRegion, provider, savedRegion, err,
                   exitAt, controllers, running, managerUp, startChan,
                   waitReturned, poolTicked, restarts>>
    /\ UNCHANGED notStartup

\* NodeController, once started, runs its pool tick every PoolInterval.
NodeControllerPoolTick(p) ==
    /\ "NodeController" \in running[p]
    /\ ~poolTicked[p]
    /\ poolTicked' = [poolTicked EXCEPT ![p] = TRUE]
    /\ UNCHANGED <<kvRegion, election, pc, cloudRegion, provider, savedRegion, err,
                   exitAt, controllers, running, managerUp, startChan,
                   imageAvailable, waitReturned, restarts>>
    /\ UNCHANGED notStartup

\* The provider is started again after a failed startup; the new process
\* campaigns under its own name once the key of the old one has run out.
Restart(p) ==
    /\ pc[p] \in Dead
    /\ election # p
    /\ restarts < MaxRestarts
    /\ restarts' = restarts + 1
    /\ pc' = [pc EXCEPT ![p] = "loadProviderConfig"]
    /\ cloudRegion' = [cloudRegion EXCEPT ![p] = NoRegion]
    /\ provider' = [provider EXCEPT ![p] = "none"]
    /\ savedRegion' = [savedRegion EXCEPT ![p] = NoValue]
    /\ err' = [err EXCEPT ![p] = NoErr]
    /\ exitAt' = [exitAt EXCEPT ![p] = "none"]
    /\ controllers' = [controllers EXCEPT ![p] = {}]
    /\ imageAvailable' = [imageAvailable EXCEPT ![p] = FALSE]
    /\ waitReturned' = [waitReturned EXCEPT ![p] = FALSE]
    /\ poolTicked' = [poolTicked EXCEPT ![p] = FALSE]
    /\ UNCHANGED <<kvRegion, election, running, managerUp, startChan>>
    /\ UNCHANGED notStartup

StartupInit ==
    /\ kvRegion = NoValue
    /\ election = NoProc
    /\ pc = [p \in Procs |-> "loadProviderConfig"]
    /\ cloudRegion = [p \in Procs |-> NoRegion]
    /\ provider = [p \in Procs |-> "none"]
    /\ savedRegion = [p \in Procs |-> NoValue]
    /\ err = [p \in Procs |-> NoErr]
    /\ exitAt = [p \in Procs |-> "none"]
    /\ controllers = [p \in Procs |-> {}]
    /\ running = [p \in Procs |-> {}]
    /\ managerUp = [p \in Procs |-> FALSE]
    /\ startChan = [p \in Procs |-> FALSE]
    /\ imageAvailable = [p \in Procs |-> FALSE]
    /\ waitReturned = [p \in Procs |-> FALSE]
    /\ poolTicked = [p \in Procs |-> FALSE]
    /\ restarts = 0

NewInstanceProvider(p) ==
    \/ loadProviderConfigStep(p)
    \/ ParseConfigStep(p)
    \/ validateServerConfigFileStep(p)
    \/ setupEtcdStep(p)
    \/ getControllerIDStep(p)
    \/ certsNewStep(p)
    \/ ConfigureCloudStep(p)
    \/ ensureRegionGet(p)
    \/ ensureRegionPut(p)
    \/ ensureRegionReturn(p)
    \/ CreateClientCertStep(p)
    \/ instanceselectorSetupStep(p)
    \/ ValidateInstanceTypeStep(p)
    \/ constructStep(p)
    \/ goStartStep(p)
    \/ StartControllersStep(p)
    \/ WaitForAvailableStep(p)
    \/ validateBootImageTagsStep(p)

StartupNext ==
    \/ \E p \in Procs : NewInstanceProvider(p)
    \/ \E p \in Procs : ManagerCampaign(p)
    \/ \E p \in Procs : ManagerLaunch(p)
    \/ ElectionExpire
    \/ \E p \in Procs : ImageControllerSync(p)
    \/ \E p \in Procs : NodeControllerPoolTick(p)
    \/ \E p \in Procs : Restart(p)

\* ------------------------------------------------------------ filterEventList

\* eventList.Items[i].CreationTimestamp.Before(eventList.Items[j].CreationTimestamp)
Before(a, b) == a.CreationTimestamp < b.CreationTimestamp

\* sort.Slice(items, less) with less = Before: the items in an order in which
\* no item is Before an earlier one. sort.Slice is not stable, so every such
\* order of items with equal timestamps is a possible outcome.
SortSlice(items) ==
    LET n == Len(items)
        perms == {f \in [1..n -> 1..n] : \A i, j \in 1..n : i # j => f[i] # f[j]}
        sorted(t) == \A i, j \in 1..n : i < j => ~Before(t[j], t[i])
    IN  {t \in {[i \in 1..n |-> items[f[i]]] : f \in perms} : sorted(t)}

\* An *api.EventList: a nil pointer, or a list with its Items.
NilList == [isNil |-> TRUE, Items |-> <<>>]
ListOf(items) == [isNil |-> FALSE, Items |-> items]

\* Mutant: the tail is cut one item too short.
keepTail_OffByOne(items) ==
    {SubSeq(t, (Len(t) - MaxEventListSize) + 2, Len(t)) : t \in SortSlice(items)}

\* Mutant: the head of the sorted items is kept instead of the tail.
keepTail_Head(items) ==
    {SubSeq(t, 1, MaxEventListSize) : t \in SortSlice(items)}

\* Mutant: only the oldest item is dropped (start := 1).
keepTail_DropOne(items) ==
    {SubSeq(t, 2, Len(t)) : t \in SortSlice(items)}

\* The sort and the tail eventList.Items[start:] of the sorted items, with
\* start = size - MaxEventListSize.
keepTail(items) ==
    {SubSeq(t, (Len(t) - MaxEventListSize) + 1, Len(t)) : t \in SortSlice(items)}

\* len(list.Items), read where the list is known not to be nil; a nil list has
\* no items.
Size(list) == IF list.isNil THEN 0 ELSE Len(list.Items)

\* The guard of filterEventList.
overLimit(list) == ~list.isNil /\ Len(list.Items) > MaxEventListSize

\* filterEventList: the possible states of the returned (same) list.
filterEventList(list) ==
    IF overLimit(list)
    THEN {ListOf(t) : t \in keepTail(list.Items)}
    ELSE {list}

\* filterReplyObject: only an *api.EventList is filtered.
filterReplyObject(kind, list) ==
    IF kind = "EventList" THEN filterEventList(list) ELSE {list}

\* A reply object passes through filterReplyObject.
FilterReply ==
    /\ evCalls < MaxCalls
    /\ evCalls' = evCalls + 1
    /\ evInput' = eventList
    /\ eventList' \in filterReplyObject(objKind, eventList)
    /\ UNCHANGED <<objKind, evOrig>>
    /\ UNCHANGED notEvents

\* The timestamps of the event lists tried: every list of up to MaxListLen
\* events, each with one of MaxTimestamp creation times, in any order.
EventLists ==
    UNION {[1..n -> 1..MaxTimestamp] : n \in 0..MaxListLen}

ItemsOf(stamps) ==
    [i \in DOMAIN stamps |-> [UID |-> i, CreationTimestamp |-> stamps[i]]]

EventsInit ==
    /\ objKind \in {"EventList", "PodList"}
    /\ eventList \in {NilList} \cup {ListOf(ItemsOf(st)) : st \in EventLists}
    /\ evOrig = eventList
    /\ evInput = NilList
    /\ evCalls = 0

\* ------------------------------------------------------- registry Update (CAS)

Writers == {"w1", "w2", "w3"}

\* Mutant: the write is applied whatever version is stored.
Update_NoCheck(st, prevVersion, content) ==
    [store |-> [version |-> st.version + 1, content |-> content], res |-> "ok"]

\* Registry Update(prevVersion): an atomic put-if-version-matches; the store
\* answers Conflict when the stored ResourceVersion differs.
Update(st, prevVersion, content) ==
    IF st.version = prevVersion
    THEN [store |-> [version |-> st.version + 1, content |-> content], res |-> "ok"]
    ELSE [store |-> st, res |-> "Conflict"]

\* A writer reads the entity (Get) and keeps the ResourceVersion it read.
RegistryGet(w) ==
    /\ wpc[w] = "idle"
    /\ wtries[w] < MaxTries
    /\ wread' = [wread EXCEPT ![w] = stored.version]
    /\ wpc' = [wpc EXCEPT ![w] = "read"]
    /\ UNCHANGED <<stored, wres, wtries, updates>>
    /\ UNCHANGED notRegistry

\* The writer sends the Update it computed from its copy; on Conflict it goes
\* back to re-read.
RegistryUpdate(w) ==
    /\ wpc[w] = "read"
    /\ LET content == <<w, wtries[w] + 1>>
           r == Update(stored, wread[w], content)
       IN  /\ stored' = r.store
           /\ wres' = [wres EXCEPT ![w] = r.res]
           /\ wpc' = [wpc EXCEPT ![w] = IF r.res = "ok" THEN "done" ELSE "idle"]
           /\ updates' = Append(updates, [writer |-> w, prev |-> wread[w],
                                          at |-> stored.version, res |-> r.res,
                                          content |-> content])
    /\ wtries' = [wtries EXCEPT ![w] = @ + 1]
    /\ UNCHANGED wread
    /\ UNCHANGED notRegistry

RegistryInit ==
    /\ stored = [version |-> 1, content |-> <<"created", 0>>]
    /\ wpc = [w \in Writers |-> "idle"]
    /\ wread = [w \in Writers |-> 0]
    /\ wres = [w \in Writers |-> "none"]
    /\ wtries = [w \in Writers |-> 0]
    /\ updates = <<>>

RegistryNext ==
    \/ \E w \in Writers : RegistryGet(w)
    \/ \E w \in Writers : RegistryUpdate(w)

\* ------------------------------------- virtual-kubelet callbacks and findLog

PodNames == {"p1", "p2"}
NodeNames == {"n1"}
PodPhases == {"Waiting", "Dispatching", "Running", "Succeeded", "Failed", "Terminated"}

NoPod == [exists |-> FALSE, Phase |-> "", BoundNodeName |-> ""]
NoNode == [exists |-> FALSE, Address |-> ""]
NoReference == [Kind |-> "", Name |-> "", UID |-> ""]
NoLog == [exists |-> FALSE, Content |-> "", ParentObject |-> NoReference]

KindOf(name) == IF name \in PodNames THEN "Pod" ELSE "Node"

\* The UID the registry gave the object of that name.
UIDOf(name) ==
    CASE name = "p1" -> "uid-p1"
      [] name = "p2" -> "uid-p2"
      [] OTHER -> "uid-n1"

\* api.ToObjectReference(obj): the kind, the name and the UID of the object.
ToObjectReference(name) == [Kind |-> KindOf(name), Name |-> name, UID |-> UIDOf(name)]

\* The Log record created for a parent object.
LogFor(name) ==
    [exists |-> TRUE, Content |-> "Old pod log lines",
     ParentObject |-> ToObjectReference(name)]

NoReply ==
    [op |-> "none", name |-> "", err |-> "", Content |-> "",
     ParentObject |-> NoReference, agent |-> FALSE]

\* Mutant: the callback returns nil.
notImplemented_Nil(op, name) ==
    [op |-> op, name |-> name, err |-> "", Content |-> "",
     ParentObject |-> NoReference, agent |-> FALSE]

\* return fmt.Errorf("not implemented")
notImplemented(op, name) ==
    [op |-> op, name |-> name, err |-> "not implemented", Content |-> "",
     ParentObject |-> NoReference, agent |-> FALSE]

\* What every pod callback leaves alone: the registries, the node agents and
\* the notifier (the notifier call is commented out).
providerUnchanged ==
    UNCHANGED <<podRegistry, nodeRegistry, logRegistry, agentCalls, notifier>>

CreatePod(name) ==
    /\ reply' = notImplemented("CreatePod", name)
    /\ providerUnchanged
    /\ UNCHANGED notPods

UpdatePod(name) ==
    /\ reply' = notImplemented("UpdatePod", name)
    /\ providerUnchanged
    /\ UNCHANGED notPods

DeletePod(name) ==
    /\ reply' = notImplemented("DeletePod", name)
    /\ providerUnchanged
    /\ UNCHANGED notPods

GetPod(name) ==
    /\ reply' = notImplemented("GetPod", name)
    /\ providerUnchanged
    /\ UNCHANGED notPods

GetContainerLogs(name) ==
    /\ reply' = notImplemented("GetContainerLogs", name)
    /\ providerUnchanged
    /\ UNCHANGED notPods

RunInContainer(name) ==
    /\ reply' = notImplemented("RunInContainer", name)
    /\ providerUnchanged
    /\ UNCHANGED notPods

GetPodStatus(name) ==
    /\ reply' = notImplemented("GetPodStatus", name)
    /\ providerUnchanged
    /\ UNCHANGED notPods

GetPods ==
    /\ reply' = notImplemented("GetPods", "")
    /\ providerUnchanged
    /\ UNCHANGED notPods

\* NotifyPods: the assignment of the notifier is commented out.
NotifyPods ==
    /\ reply' = [NoReply EXCEPT !.op = "NotifyPods"]
    /\ providerUnchanged
    /\ UNCHANGED notPods

\* Mutant: every pod in the registry is asked for at its node agent.
useAgent_AnyPod(pod) == pod.exists

\* Mutant: no pod is asked for at its node agent.
useAgent_Never(pod) == FALSE

\* findLog's choice of the source of a log: the node agent of a Running pod,
\* the log registry for everything else.
useAgent(pod) == pod.exists /\ pod.Phase = "Running"

\* findLog(resourceName, "", 0, 0): the log of a Running pod is fetched from the
\* agent of its bound node; otherwise the Log record of the registry whose
\* parent is the named object is returned.
findLog(name) ==
    /\ LET pod == IF name \in PodNames THEN podRegistry[name] ELSE NoPod
           node == IF pod.BoundNodeName \in NodeNames
                   THEN nodeRegistry[pod.BoundNodeName] ELSE NoNode
           log == logRegistry[name]
           r == [NoReply EXCEPT !.op = "findLog", !.name = name]
       IN  IF useAgent(pod)
           THEN IF node.exists /\ node.Address # ""
                THEN /\ agentCalls < MaxAgentCalls
                     /\ agentCalls' = agentCalls + 1
                     /\ reply' = [r EXCEPT !.Content = "logs", !.agent = TRUE,
                                    !.ParentObject = ToObjectReference(name)]
                ELSE /\ reply' = [r EXCEPT !.err = "no node for pod"]
                     /\ UNCHANGED agentCalls
           ELSE /\ reply' = IF log.exists
                             THEN [r EXCEPT !.Content = log.Content,
                                            !.ParentObject = log.ParentObject]
                             ELSE [r EXCEPT !.err = "not found"]
                /\ UNCHANGED agentCalls
    /\ UNCHANGED <<podRegistry, nodeRegistry, logRegistry, notifier>>
    /\ UNCHANGED notPods

\* The registries as the tests set them up: pods in any phase, bound or not,
\* the node with or without an address, a Log record for any of them.
PodsInit ==
    /\ podRegistry \in [PodNames ->
            {NoPod} \cup [exists : {TRUE}, Phase : PodPhases,
                          BoundNodeName : {""} \cup NodeNames]]
    /\ nodeRegistry \in [NodeNames ->
            {NoNode} \cup [exists : {TRUE}, Address : {"", "1.2.3.4"}]]
    /\ \E parents \in SUBSET (PodNames \cup NodeNames) :
            logRegistry = [n \in PodNames \cup NodeNames |->
                              IF n \in parents THEN LogFor(n) ELSE NoLog]
    /\ agentCalls = 0
    /\ reply = NoReply
    /\ notifier = NIL

PodsNext ==
    \/ \E name \in PodNames : CreatePod(name)
    \/ \E name \in PodNames : UpdatePod(name)
    \/ \E name \in PodNames : DeletePod(name)
    \/ \E name \in PodNames : GetPod(name)
    \/ \E name \in PodNames : GetContainerLogs(name)
    \/ \E name \in PodNames : RunInContainer(name)
    \/ \E name \in PodNames : GetPodStatus(name)
    \/ GetPods
    \/ NotifyPods
    \/ \E name \in PodNames \cup NodeNames : findLog(name)

EventsParked ==
    /\ objKind = "EventList"
    /\ eventList = NilList
    /\ evOrig = NilList
    /\ evInput = NilList
    /\ evCalls = 0

RegistryParked ==
    /\ stored = [version |-> 1, content |-> <<"created", 0>>]
    /\ wpc = <<>>
    /\ wread = <<>>
    /\ wres = <<>>
    /\ wtries = <<>>
    /\ updates = <<>>

PodsParked ==
    /\ podRegistry = <<>>
    /\ nodeRegistry = <<>>
    /\ logRegistry = {}
    /\ agentCalls = 0
    /\ reply = NIL
    /\ notifier = NIL

\* -------------------------------------------------------- loadProviderConfig

\* Provider configuration defaults.
defaultCPUCapacity == "20"
defaultMemoryCapacity == "100Gi"
defaultPodCapacity == "20"

\* The node names that may be keys of the JSON map, and one that never is.
ConfigNodes == {"node-a", "node-b"}
ConfigNodeNames == ConfigNodes \cup {"node-c"}

\* A key that the JSON object of a node does not have, and a JSON null.
Missing == "<missing>"
JNull == "<null>"

\* Strings that resource.ParseQuantity accepts, and strings it rejects. The
\* empty string is rejected.
ValidQuantities == {"20", "100Gi", "4", "8Gi", "50"}
InvalidQuantities == {"", "lots"}

\* The JSON values of the keys cpu, memory and pods of one node's object.
CPUValues == {Missing, JNull, "", "4", "lots"}
MemoryValues == {Missing, JNull, "", "8Gi", "lots"}
PodsValues == {Missing, JNull, "", "50", "lots"}

\* One node's slot in the JSON map: an object with some of the three keys, or
\* no object at all.
NoEntry == [present |-> FALSE, cpu |-> Missing, memory |-> Missing,
            pods |-> Missing]
ConfigEntries ==
    {[present |-> TRUE, cpu |-> c, memory |-> m, pods |-> q] :
        c \in CPUValues, m \in MemoryValues, q \in PodsValues}
ConfigMaps == [ConfigNodes -> ConfigEntries \cup {NoEntry}]
EmptyMap == [n \in ConfigNodes |-> NoEntry]

\* The files the path may name: none that can be read, one whose content
\* does not unmarshal into map[string]ProviderConfig, or a JSON map.
ConfigFiles ==
    {[readable |-> FALSE, wellFormed |-> FALSE, configMap |-> EmptyMap],
     [readable |-> TRUE, wellFormed |-> FALSE, configMap |-> EmptyMap]}
    \cup {[readable |-> TRUE, wellFormed |-> TRUE, configMap |-> m] :
            m \in ConfigMaps}

\* The zero ProviderConfig.
ZeroConfig == [CPU |-> "", Memory |-> "", Pods |-> ""]

\* json.Unmarshal into a string field: an absent key and a null leave the
\* field at its zero value.
Unmarshal(value) == IF value \in {Missing, JNull} THEN "" ELSE value

\* configMap[nodeName] with its exist flag.
exist(configMap, nodeName) ==
    nodeName \in DOMAIN configMap /\ configMap[nodeName].present

lookup(configMap, nodeName) ==
    [CPU |-> Unmarshal(configMap[nodeName].cpu),
     Memory |-> Unmarshal(configMap[nodeName].memory),
     Pods |-> Unmarshal(configMap[nodeName].pods)]

\* Mutant: an empty field stays empty.
withDefault_None(value, default) == value

\* if config.X == "" { config.X = defaultX }
withDefault(value, default) == IF value = "" THEN default ELSE value

\* resource.ParseQuantity succeeds on the string.
ParseQuantity(value) == value \in ValidQuantities

NoResult == [called |-> FALSE, config |-> ZeroConfig, err |-> NoErr]

Returns(config, e) == [called |-> TRUE, config |-> config, err |-> e]

\* loadProviderConfig(providerConfig, nodeName)
loadProviderConfig(file, nodeName) ==
    IF ~file.readable THEN Returns(ZeroConfig, <<"reading config">>)
    ELSE IF ~file.wellFormed THEN Returns(ZeroConfig, <<"parsing config">>)
    ELSE
        LET found == IF exist(file.configMap, nodeName)
                     THEN lookup(file.configMap, nodeName)
                     ELSE ZeroConfig
            config == [CPU |-> withDefault(found.CPU, defaultCPUCapacity),
                       Memory |-> withDefault(found.Memory, defaultMemoryCapacity),
                       Pods |-> withDefault(found.Pods, defaultPodCapacity)]
        IN  IF ~ParseQuantity(config.CPU)
            THEN Returns(config, <<"Invalid CPU value", config.CPU>>)
            ELSE IF ~ParseQuantity(config.Memory)
            THEN Returns(config, <<"Invalid memory value", config.Memory>>)
            ELSE IF ~ParseQuantity(config.Pods)
            THEN Returns(config, <<"Invalid pods value", config.Pods>>)
            ELSE Returns(config, NoErr)

\* NewInstanceProvider's call of loadProviderConfig.
LoadProviderConfig ==
    /\ ~configResult.called
    /\ configResult' = loadProviderConfig(configFile, configNodeName)
    /\ UNCHANGED <<configFile, configNodeName>>
    /\ UNCHANGED notConfig

ConfigInit ==
    /\ configFile \in ConfigFiles
    /\ configNodeName \in ConfigNodeNames
    /\ configResult = NoResult

ConfigNext == LoadProviderConfig

ConfigParked ==
    /\ configFile = [readable |-> FALSE, wellFormed |-> FALSE,
                     configMap |-> EmptyMap]
    /\ configNodeName = "node-a"
    /\ configResult = NoResult

\* Startup of the provider processes against one KV store.
Init == StartupInit /\ EventsParked /\ RegistryParked /\ PodsParked /\ ConfigParked

Next == StartupNext

Spec == Init /\ [][Next]_vars

\* ------------------------------------------------------------------ claims

\* Whether the message msg names x.
Names(msg, x) == \E i \in DOMAIN msg : msg[i] = x

\* C1: the cluster region key is immutable once set: under any sequence of
\* startups, sequential or interleaved, once the key holds a value every
\* later state holds the same value.
C1_RegionImmutable ==
    [][kvRegion # NoValue => kvRegion' = kvRegion]_vars

\* C1 witness: the key is set, and a startup with another region that found the
\* key absent lost the create to it.
C1_Witness ==
    \E p \in Procs :
        /\ kvRegion # NoValue
        /\ pc[p] = "exited"
        /\ exitAt[p] = "ensureRegionUnchanged"
        /\ err[p] = ErrKeyExists
        /\ cloudRegion[p] # kvRegion

\* A startup that read a stored region different from its cloud region.
Mismatch(p) ==
    /\ savedRegion[p] # NoValue
    /\ savedRegion[p] # cloudRegion[p]

C2_StateOf(p) ==
    /\ err[p] # NoErr
    /\ Names(err[p], savedRegion[p])
    /\ Names(err[p], cloudRegion[p])
    /\ pc[p] \in {"ensureRegionReturned", "exited"}
    /\ pc[p] = "exited" => exitAt[p] = "ensureRegionUnchanged"
    /\ controllers[p] = {}
    /\ running[p] = {}
    /\ ~managerUp[p]

\* C2: a startup that reads a stored region different from its cloud region
\* gets an error naming both regions, writes nothing to the store, and exits
\* at the region check with no controller constructed or started.
C2_RegionMismatchFatal ==
    /\ [](\A p \in Procs : Mismatch(p) => C2_StateOf(p))
    /\ [][\A p \in Procs :
            (Mismatch(p)' /\ pc'[p] # pc[p]) => kvRegion' = kvRegion]_vars

\* C2 witness: a startup has exited on a region mismatch.
C2_Witness ==
    \E p \in Procs :
        /\ Mismatch(p)
        /\ pc[p] = "exited"
        /\ kvRegion = savedRegion[p]

C6_WaitBeforeFirstTick ==
    \A p \in Procs :
        ("ImageController" \in controllers[p] /\ poolTicked[p]) => waitReturned[p]

\* filterReplyObject applied to reply objects of every size.
InitEvents ==
    EventsInit /\ StartupInit /\ RegistryParked /\ PodsParked /\ ConfigParked

NextEvents == FilterReply

SpecEvents == InitEvents /\ [][NextEvents]_vars

Min(a, b) == IF a < b THEN a ELSE b

Items(list) == {list.Items[i] : i \in DOMAIN list.Items}

\* C7: the number of items filterEventList returns is
\* min(len(list.Items), MaxEventListSize).
C7_OutputSize ==
    (objKind = "EventList" /\ evCalls >= 1) =>
        Size(eventList) = Min(Size(evInput), MaxEventListSize)

\* C7 witness: a list longer than MaxEventListSize was cut to MaxEventListSize.
C7_Witness ==
    /\ objKind = "EventList" /\ evCalls = 1
    /\ Size(evInput) > MaxEventListSize
    /\ Size(eventList) = MaxEventListSize

\* C8: of a list longer than MaxEventListSize the newest events are retained:
\* the returned items are distinct items of the input, and no dropped item has
\* a CreationTimestamp strictly later than that of a retained item.
C8_NewestRetained ==
    (objKind = "EventList" /\ evCalls >= 1 /\ Size(evInput) > MaxEventListSize) =>
        /\ Items(eventList) \subseteq Items(evInput)
        /\ Cardinality(Items(eventList)) = Size(eventList)
        /\ \A d \in Items(evInput) \ Items(eventList), r \in Items(eventList) :
              ~(d.CreationTimestamp > r.CreationTimestamp)

\* C8 witness: the newest event stood first in the input and was retained, and
\* an older one behind it was dropped.
C8_Witness ==
    /\ objKind = "EventList" /\ evCalls = 1
    /\ Size(evInput) > MaxEventListSize
    /\ evInput.Items[1] \in Items(eventList)
    /\ evInput.Items[Size(evInput)] \notin Items(eventList)
    /\ evInput.Items[1].CreationTimestamp
         > evInput.Items[Size(evInput)].CreationTimestamp

\* C9: filterEventList is idempotent: applied to its own result it returns the
\* same items in the same order.
C9_Idempotent ==
    (objKind = "EventList" /\ evCalls >= 2) => eventList = evInput

\* C9 witness: a list longer than MaxEventListSize, filtered twice.
C9_Witness ==
    /\ objKind = "EventList" /\ evCalls = 2
    /\ Size(evOrig) > MaxEventListSize
    /\ eventList = evInput

\* C9 witness for the lists the guard lets through: nil, or not over the limit.
C9_WitnessShort ==
    /\ objKind = "EventList" /\ evCalls = 2
    /\ evOrig.isNil \/ Size(evOrig) = MaxEventListSize

\* Concurrent writers updating one registry entity.
InitRegistry ==
    RegistryInit /\ StartupInit /\ EventsParked /\ PodsParked /\ ConfigParked

SpecRegistry == InitRegistry /\ [][RegistryNext]_vars

\* The answered Updates that carried ResourceVersion v.
UpdatesFrom(v) == {i \in DOMAIN updates : updates[i].prev = v}
Winners(v) == {i \in UpdatesFrom(v) : updates[i].res = "ok"}
LastWin == CHOOSE i \in DOMAIN updates :
               /\ updates[i].res = "ok"
               /\ \A j \in DOMAIN updates : updates[j].res = "ok" => j <= i

\* C3: of the Updates of one entity computed from the same ResourceVersion
\* exactly one succeeds and every other returns Conflict; the stored entity is
\* the last winner's write, and no Update with a stale ResourceVersion is
\* applied.
C3_ExactlyOneWinner ==
    /\ \A v \in 1..stored.version :
          UpdatesFrom(v) # {} =>
              /\ Cardinality(Winners(v)) = 1
              /\ \A i \in UpdatesFrom(v) \ Winners(v) : updates[i].res = "Conflict"
    /\ \A i \in DOMAIN updates :
          updates[i].res = "ok" => updates[i].prev = updates[i].at
    /\ (\E i \in DOMAIN updates : updates[i].res = "ok") =>
          stored.content = updates[LastWin].content

\* C3 witness: all three writers sent an Update computed from the same
\* ResourceVersion; one won and two got Conflict.
C3_Witness ==
    \E v \in 1..stored.version :
        /\ Cardinality(UpdatesFrom(v)) = Cardinality(Writers)
        /\ Cardinality(Winners(v)) = 1
        /\ Cardinality({updates[i].writer : i \in UpdatesFrom(v)}) = Cardinality(Writers)

\* The provider's callbacks and findLog over the registries.
InitPods ==
    PodsInit /\ StartupInit /\ EventsParked /\ RegistryParked /\ ConfigParked

SpecPods == InitPods /\ [][PodsNext]_vars

\* C5 (as claimed): a DeletePod callback for an existing pod leaves that pod
\* Terminating in the registry.
C5_DeletePodTerminates ==
    \A name \in PodNames :
        (reply.op = "DeletePod" /\ reply.name = name /\ podRegistry[name].exists)
            => (reply.err = "" /\ podRegistry[name].Phase = "Terminating")

\* The case of the log fallback: the last call was findLog for a pod that is in
\* the registry, is not Running, and has a Log record.
Fallback(r, name) ==
    /\ r.op = "findLog" /\ r.name = name
    /\ podRegistry[name].exists
    /\ podRegistry[name].Phase # "Running"
    /\ logRegistry[name].exists

\* C10: for a pod of the registry that is not Running, findLog returns the
\* content of the Log record of the registry whose parent is that pod, and
\* calls no node agent.
C10_LogFallback ==
    /\ [](\A name \in PodNames :
            Fallback(reply, name) =>
                /\ reply.err = ""
                /\ reply.Content = logRegistry[name].Content
                /\ reply.ParentObject = ToObjectReference(name)
                /\ ~reply.agent)
    /\ [][\A name \in PodNames :
            Fallback(reply', name) => agentCalls' = agentCalls]_vars

\* C10 witness: findLog answered for a Waiting pod from its Log record, with a
\* node and a Running pod around that could have been asked.
C10_Witness ==
    \E name \in PodNames :
        /\ Fallback(reply, name)
        /\ podRegistry[name].Phase = "Waiting"
        /\ reply.Content = "Old pod log lines"
        /\ podRegistry[name].BoundNodeName = "n1"
        /\ nodeRegistry["n1"].exists
        /\ agentCalls = 0

\* The case of the live log: the last call was findLog for a Running pod whose
\* BoundNodeName names a node of the registry that has an address.
Live(r, name) ==
    /\ r.op = "findLog" /\ r.name = name
    /\ podRegistry[name].exists
    /\ podRegistry[name].Phase = "Running"
    /\ podRegistry[name].BoundNodeName \in NodeNames
    /\ nodeRegistry[podRegistry[name].BoundNodeName].exists
    /\ nodeRegistry[podRegistry[name].BoundNodeName].Address # ""

\* C11: for a Running pod bound to a node of the registry that has an address,
\* findLog returns the log fetched from that node's agent, with a ParentObject
\* of Kind "Pod" and the UID of the pod.
C11_LiveLog ==
    /\ [](\A name \in PodNames :
            Live(reply, name) =>
                /\ reply.err = ""
                /\ reply.agent
                /\ reply.Content = "logs"
                /\ reply.ParentObject.Kind = "Pod"
                /\ reply.ParentObject.UID = UIDOf(name))
    /\ [][\A name \in PodNames :
            Live(reply', name) => agentCalls' = agentCalls + 1]_vars

\* C11 witness: the log of a Running pod came from the agent although the
\* registry holds a Log record for the pod.
C11_Witness ==
    \E name \in PodNames :
        /\ Live(reply, name)
        /\ reply.Content = "logs"
        /\ logRegistry[name].exists
        /\ agentCalls = 1

PodCallbacks ==
    {"CreatePod", "UpdatePod", "DeletePod", "GetPod", "GetPodStatus", "GetPods",
     "GetContainerLogs", "RunInContainer"}

C13_WitnessNotify == reply.op = "NotifyPods" /\ notifier = NIL

\* The steps of NewInstanceProvider after ensureRegionUnchanged returned nil.
AfterRegion == {"CreateClientCert", "instanceselectorSetup",
                "ValidateInstanceType", "construct", "goStart",
                "StartControllers", "WaitForAvailable",
                "validateBootImageTags", "returned"}

\* ensureRegionUnchanged returned nil to process p.
RegionOk(p) ==
    \/ pc[p] = "ensureRegionReturned" /\ err[p] = NoErr
    \/ pc[p] \in AfterRegion
    \/ pc[p] = "exited" /\ exitAt[p] \in AfterRegion

\* The call of p succeeded through its own create: it never read the key.
Created(p) == RegionOk(p) /\ savedRegion[p] = NoValue

\* C14: of the ensureRegionUnchanged calls racing on an absent key at most one
\* create succeeds; every call that returned nil was given the stored region;
\* an AtomicPut that finds the key taken returns an error, whatever its region,
\* and leaves the key as it was.
C14_OneCreateWins ==
    /\ [](\A p \in Procs : RegionOk(p) => cloudRegion[p] = kvRegion)
    /\ [](\A p, q \in Procs : (Created(p) /\ Created(q)) => p = q)
    /\ [][\A p \in Procs :
            (pc[p] = "ensureRegionAtomicPut" /\ pc'[p] # pc[p]
                /\ kvRegion # NoValue)
            => (err'[p] # NoErr /\ kvRegion' = kvRegion)]_vars

\* Two calls raced with the same region: one created the key, the other got
\* the key-exists error.
C14_Witness ==
    \E p, q \in Procs :
        /\ p # q
        /\ Created(q)
        /\ cloudRegion[q] = kvRegion
        /\ err[p] = ErrKeyExists
        /\ cloudRegion[p] = kvRegion
        /\ pc[p] = "exited"
        /\ exitAt[p] = "ensureRegionUnchanged"

\* The fatal checks between the region check and the construction.
LaterChecks == {"CreateClientCert", "instanceselectorSetup",
                "ValidateInstanceType"}

\* Process p passed the region check and exited at a later check.
ExitedLater(p) == pc[p] = "exited" /\ exitAt[p] \in LaterChecks

\* Process q has finished a region check with a region other than r.
CheckedOther(q, r) ==
    /\ cloudRegion[q] # r
    /\ \/ pc[q] = "ensureRegionReturned"
       \/ pc[q] \in AfterRegion
       \/ pc[q] = "exited" /\ exitAt[q] \in AfterRegion \cup {"ensureRegionUnchanged"}

\* C15: a startup that passed the region check and exited at client-cert
\* creation, instance-selector setup or instance-type validation leaves its
\* region in the key, and a startup with another region that runs the region
\* check while that one lies dead fails it.
C15_RegionWrittenBeforeSelector ==
    \A p \in Procs :
        ExitedLater(p) =>
            /\ kvRegion = cloudRegion[p]
            /\ \A q \in Procs :
                  CheckedOther(q, cloudRegion[p]) =>
                      /\ err[q] # NoErr
                      /\ pc[q] = "exited" => exitAt[q] = "ensureRegionUnchanged"

\* A startup created the key with the empty region and died in
\* instanceselector.Setup; the other, in another region, failed the check.
C15_Witness ==
    \E p, q \in Procs :
        /\ p # q
        /\ ExitedLater(p)
        /\ exitAt[p] = "instanceselectorSetup"
        /\ Created(p)
        /\ cloudRegion[p] = ""
        /\ pc[q] = "exited"
        /\ exitAt[q] = "ensureRegionUnchanged"
        /\ savedRegion[q] = ""
        /\ cloudRegion[q] # ""

\* The steps of NewInstanceProvider before the controllers map is built.
BeforeConstruct == {"loadProviderConfig", "ParseConfig",
                    "validateServerConfigFile", "setupEtcd", "getControllerID",
                    "certsNew", "ConfigureCloud", "ensureRegionUnchanged",
                    "ensureRegionAtomicPut", "ensureRegionReturned",
                    "CreateClientCert", "instanceselectorSetup",
                    "ValidateInstanceType", "construct"}

\* The fatal checks other than the boot-image-tag validation.
EarlyChecks == {"loadProviderConfig", "ParseConfig",
                "validateServerConfigFile", "setupEtcd",
                "getControllerID", "certsNew", "ConfigureCloud",
                "ensureRegionUnchanged", "CreateClientCert",
                "instanceselectorSetup", "ValidateInstanceType"}

\* C16: a process that exits at validateBootImageTags has, at that moment, its
\* controllers built, its manager up and StartControllers called (the request
\* is pending or the controllers run); a process that stops at any other
\* check stops there with no controller built, no manager and no request.
C16_TagsValidatedAfterStart ==
    /\ [][\A p \in Procs :
            (pc'[p] = "exited" /\ pc[p] # "exited"
                /\ exitAt'[p] = "validateBootImageTags")
            => /\ controllers[p] # {}
               /\ managerUp[p]
               /\ startChan[p] \/ running[p] # {}]_vars
    /\ [](\A p \in Procs :
            (pc[p] \in Dead /\ exitAt[p] # "validateBootImageTags")
            => (exitAt[p] \in EarlyChecks /\ controllers[p] = {}))
    /\ [](\A p \in Procs :
            pc[p] \in BeforeConstruct
            => (controllers[p] = {} /\ ~managerUp[p] /\ ~startChan[p]
                /\ running[p] = {}))

\* A process exited at validateBootImageTags after its node controller had
\* already ticked.
C16_Witness ==
    \E p \in Procs :
        /\ pc[p] = "exited"
        /\ exitAt[p] = "validateBootImageTags"
        /\ controllers[p] # {}
        /\ poolTicked[p]

\* A process exited at an early check.
C16_WitnessEarly ==
    \E p \in Procs :
        /\ pc[p] = "exited"
        /\ exitAt[p] = "instanceselectorSetup"
        /\ controllers[p] = {}

\* loadProviderConfig alone, over every file and node name of the bounds.
InitConfig ==
    ConfigInit /\ StartupInit /\ EventsParked /\ RegistryParked /\ PodsParked

SpecConfig == InitConfig /\ [][ConfigNext]_vars

\* The JSON value configured for the node under one key: Missing when the map
\* has no object for the node.
Configured(key) ==
    IF configNodeName \in ConfigNodes
    THEN LET e == configFile.configMap[configNodeName] IN
         IF ~e.present THEN Missing
         ELSE IF key = "cpu" THEN e.cpu
         ELSE IF key = "memory" THEN e.memory
         ELSE e.pods
    ELSE Missing

\* The capacity the claim expects for one key.
Expected(key, default) ==
    IF Configured(key) \in {Missing, JNull, ""} THEN default ELSE Configured(key)

\* C12: loadProviderConfig of a JSON map and a node name gives, for each of
\* cpu, memory and pods, the default (20, 100Gi, 20) when the value is missing
\* or empty for the node (the node absent from the map included) and the
\* configured value otherwise; it returns an error exactly when one of the
\* three resolved values is not a quantity, naming the first such value.
C12_CapacityDefaults ==
    (configResult.called /\ configFile.readable /\ configFile.wellFormed) =>
        LET cpu == Expected("cpu", "20")
            memory == Expected("memory", "100Gi")
            pods == Expected("pods", "20")
        IN  /\ configResult.config = [CPU |-> cpu, Memory |-> memory, Pods |-> pods]
            /\ (configResult.err = NoErr) <=>
                   ({cpu, memory, pods} \subseteq ValidQuantities)
            /\ cpu \notin ValidQuantities =>
                   configResult.err = <<"Invalid CPU value", cpu>>
            /\ (cpu \in ValidQuantities /\ memory \notin ValidQuantities) =>
                   configResult.err = <<"Invalid memory value", memory>>
            /\ ({cpu, memory} \subseteq ValidQuantities
                    /\ pods \notin ValidQuantities) =>
                   configResult.err = <<"Invalid pods value", pods>>

\* An object with an empty cpu, a configured memory and no pods key.
C12_Witness ==
    /\ configResult.called
    /\ configFile.wellFormed
    /\ Configured("cpu") = ""
    /\ Configured("memory") = "8Gi"
    /\ Configured("pods") = Missing
    /\ configResult.config = [CPU |-> "20", Memory |-> "8Gi", Pods |-> "20"]
    /\ configResult.err = NoErr

\* The node name is not a key of the map: all three defaults.
C12_WitnessAbsent ==
    /\ configResult.called
    /\ configFile.wellFormed
    /\ configNodeName = "node-c"
    /\ \E n \in ConfigNodes : configFile.configMap[n].present
    /\ configResult.config = [CPU |-> "20", Memory |-> "100Gi", Pods |-> "20"]
    /\ configResult.err = NoErr

\* A configured value that is not a quantity.
C12_WitnessUnparsable ==
    /\ configResult.called
    /\ configFile.wellFormed
    /\ Configured("cpu") = "4"
    /\ Configured("memory") = "lots"
    /\ configResult.err = <<"Invalid memory value", "lots">>


============================================================================
